---- MODULE Spec2Model ----
(***************************************************************************)
(* Model of the image captioning program: the caption store               *)
(* (data_loader.py), the training example generator and the train path    *)
(* (main.py, train_model) and the predict path with its greedy decoding   *)
(* loop (main.py, predict_caption).                                       *)
(*                                                                         *)
(* Text is a sequence of symbols.  In the caption file a symbol is one     *)
(* character; in the tokenised world a symbol is either a whole word or    *)
(* the single blank SP, so 'startseq a' is <<"startseq", " ", "a">>.       *)
(* No word of the bounded vocabulary contains another word as a substring, *)
(* which is what makes a word an atom for str.replace.                     *)
(***************************************************************************)
EXTENDS Integers, Sequences, FiniteSets, TLC

VARIABLES
    \* ---- caption store (DataLoader.load_descriptions)
    captions_file,   \* [exists, lines]: the annotations file, header line included
    images_dir,      \* [exists, files]: the image directory
    lpc,             \* position of load_descriptions
    line_no,         \* number of lines consumed from the file
    mapping,         \* image id -> list of captions
    parts,           \* what the last consumed line was split into
    \* ---- persisted artifacts and the in-memory vocabulary / max length
    store,           \* artifact -> id of the run that wrote it, 0 when absent
    tokenizer,       \* index_word as a sequence: tokenizer[k] is the word of index k
    max_length,
    run,             \* id of the current train_model run
    \* ---- predict path (predict_caption / generate_caption)
    ppc,
    in_text,
    sequence,        \* the padded sequence last handed to the decoder model
    steps,           \* number of model.predict calls made by the decode loop
    final_caption,
    \* ---- train path and training example generator
    tpc,
    cleaned,         \* cleaned_descriptions_raw: image -> list of cleaned captions
    all_features,    \* images with a cached embedding
    batch_size,
    epochs,
    filtered,        \* filtered_descriptions_for_generator: image -> framed lines
    image_ids,       \* image_ids_list_for_generator
    gen_i,           \* position of the generator's range iterator, -1 before the first batch
    batch,           \* the batch last yielded: a sequence of triples
    batch_ids,       \* batch_image_ids of the batch last yielded
    pass_ids,        \* images whose triples were yielded in the current pass
    pass_triples,    \* triples yielded in the current pass
    requested,       \* batches fit has drawn from the generator
    \* ---- text normaliser (DataLoader.clean_descriptions)
    cpc,
    descriptions,          \* the mapping clean_descriptions is first given
    cleaned_first,         \* what the first call returned
    cleaned_descriptions   \* what the last call returned

loaderVars == <<captions_file, images_dir, lpc, line_no, mapping, parts>>
sharedVars == <<store, tokenizer, max_length, run>>
predictVars == <<ppc, in_text, sequence, steps, final_caption>>
trainVars == <<tpc, cleaned, all_features, batch_size, epochs, filtered,
               image_ids, gen_i, batch, batch_ids, pass_ids, pass_triples,
               requested>>
cleanVars == <<cpc, descriptions, cleaned_first, cleaned_descriptions>>
vars == <<loaderVars, sharedVars, predictVars, trainVars, cleanVars>>

----------------------------------------------------------------------------
(* Bounds *)

MaxFileLen == 5      \* characters of the captions file after its header line
MaxImages == 3       \* images that have captions
MaxBatch == 3        \* largest batch size
MaxEpochs == 2
MaxCaptionLen == 3   \* characters of a raw caption given to clean_descriptions

----------------------------------------------------------------------------
(* Sequences and text *)

SP == " "
None == "None"
STARTSEQ == "startseq"
ENDSEQ == "endseq"
NoCaption == <<None>>    \* final_caption before a caption is reported

Min(a, b) == IF a <= b THEN a ELSE b

\* Python s[i:j] for 0 <= i, clamped to the length of s
Slice(s, i, j) == SubSeq(s, i + 1, Min(j, Len(s)))

SeqsUpTo(S, n) == UNION {[1..k -> S] : k \in 0..n}

\* the one element of a singleton; {F(v) : v \in {e}} evaluates e once and
\* hands its value to F
Only(S) == CHOOSE x \in S : TRUE

\* str.split(): the maximal runs between blanks; here every run is one symbol
SplitWords(text) == SelectSeq(text, LAMBDA c : c # SP)

StartsWith(text, old) ==
    Len(text) >= Len(old) /\ SubSeq(text, 1, Len(old)) = old

RECURSIVE Replace(_, _)
\* str.replace(old, ''): leftmost non-overlapping occurrences are removed
Replace(text, old) ==
    IF text = <<>> THEN <<>>
    ELSE IF StartsWith(text, old)
         THEN Replace(SubSeq(text, Len(old) + 1, Len(text)), old)
         ELSE <<Head(text)>> \o Replace(Tail(text), old)

----------------------------------------------------------------------------
(* Keras Tokenizer and preprocessing, as main.py uses them *)

RECURSIVE FlattenFrom(_, _)
FlattenFrom(ss, k) == IF k > Len(ss) THEN <<>> ELSE ss[k] \o FlattenFrom(ss, k + 1)

\* the concatenation of the sequences of ss
Flatten(ss) == Only({FlattenFrom(v, 1) : v \in {ss}})

Occurrences(ws, w) == Cardinality({k \in 1..Len(ws) : ws[k] = w})
FirstAt(ws, w) == CHOOSE k \in 1..Len(ws) : ws[k] = w /\ \A j \in 1..(k-1) : ws[j] # w

\* Tokenizer.fit_on_texts: words ranked by descending count, first seen first
FitOnTexts(lines) ==
    LET ws == Flatten([k \in 1..Len(lines) |-> SplitWords(lines[k])])
        distinct == {ws[k] : k \in 1..Len(ws)}
        Rank(w) == 1 + Cardinality({v \in distinct :
                        \/ Occurrences(ws, v) > Occurrences(ws, w)
                        \/ /\ Occurrences(ws, v) = Occurrences(ws, w)
                           /\ FirstAt(ws, v) < FirstAt(ws, w)})
    IN  [k \in 1..Cardinality(distinct) |-> CHOOSE w \in distinct : Rank(w) = k]

\* vocab_size = len(tokenizer.word_index) + 1
VocabSize(tok) == Len(tok) + 1

\* tokenizer.index_word.get(yhat, None)
IndexWordGet(tok, yhat) == IF yhat \in 1..Len(tok) THEN tok[yhat] ELSE None

WordIndex(tok, w) == CHOOSE k \in 1..Len(tok) : tok[k] = w

\* the indices of the words of ws that the vocabulary knows
EncodeWords(tok, ws) ==
    LET known == SelectSeq(ws, LAMBDA w : \E k \in 1..Len(tok) : tok[k] = w)
    IN  [k \in 1..Len(known) |-> WordIndex(tok, known[k])]

\* tokenizer.texts_to_sequences([text])[0]: unknown words are dropped
TextsToSequences(tok, text) ==
    Only({EncodeWords(tok, ws) : ws \in {SplitWords(text)}})

\* pad_sequences([seq])[0] without maxlen: a single sequence is its own
\* longest one and is returned as it is
PadSequencesNoMaxlen(seq, maxlen) == seq

\* pad_sequences([seq], maxlen)[0]: zeros in front, and the front is cut
\* when the sequence is longer than maxlen (maxlen >= 1)
PadSequences(seq, maxlen) ==
    IF Len(seq) >= maxlen
    THEN SubSeq(seq, Len(seq) - maxlen + 1, Len(seq))
    ELSE [k \in 1..(maxlen - Len(seq)) |-> 0] \o seq

\* to_categorical([idx], num_classes)[0]; entry k of the result is class k-1
ToCategorical(idx, num_classes) ==
    [k \in 1..num_classes |-> IF k = idx + 1 THEN 1 ELSE 0]

----------------------------------------------------------------------------
(* DataLoader helpers on cleaned captions *)

\* 'startseq ' + desc + ' endseq'
FrameLine(desc) == <<STARTSEQ, SP>> \o desc \o <<SP, ENDSEQ>>

\* descriptions_to_lines over a mapping given as a sequence of caption lists
DescriptionsToLines(descs) ==
    Flatten([k \in 1..Len(descs) |->
                [c \in 1..Len(descs[k]) |-> FrameLine(descs[k][c])]])

\* max_len: longest framed caption counted in words, 0 without captions
MaxLenOf(descs) ==
    LET ls == DescriptionsToLines(descs)
    IN  IF ls = <<>> THEN 0
        ELSE CHOOSE m \in {Len(SplitWords(ls[k])) : k \in 1..Len(ls)} :
                 \A k \in 1..Len(ls) : Len(SplitWords(ls[k])) <= m

----------------------------------------------------------------------------
(* Inputs: cleaned caption corpora *)

DescEmpty == <<>>                    \* '' : every word of the caption was dropped
DescA == <<"a">>                     \* 'a'
DescAB == <<"a", SP, "b">>           \* 'a b'
DescB == <<"b">>                     \* 'b'

\* the caption lists an image can have after clean_descriptions
CaptionLists == {<<DescEmpty>>, <<DescA>>, <<DescAB, DescB>>}

\* cleaned_descriptions_raw for images 1..n, in the order of the mapping
Corpora == UNION {[1..n -> CaptionLists] : n \in 0..MaxImages}

Artifacts == {"features", "tokenizer", "max_length", "model"}

----------------------------------------------------------------------------
(* Idle values of each part, used by the specifications that do not run it *)

IdleLoader ==
    /\ captions_file = [exists |-> FALSE, lines |-> <<>>]
    /\ images_dir = [exists |-> FALSE, files |-> {}]
    /\ lpc = "idle"
    /\ line_no = 0
    /\ mapping = <<>>
    /\ parts = <<>>

IdleClean ==
    /\ cpc = "idle"
    /\ descriptions = <<>>
    /\ cleaned_first = <<>>
    /\ cleaned_descriptions = <<>>

IdlePredict ==
    /\ ppc = "idle"
    /\ in_text = <<>>
    /\ sequence = <<>>
    /\ steps = 0
    /\ final_caption = NoCaption

IdleTrain ==
    /\ tpc = "idle"
    /\ cleaned = <<>>
    /\ all_features = {}
    /\ batch_size = 1
    /\ epochs = 1
    /\ filtered = <<>>
    /\ image_ids = <<>>
    /\ gen_i = -1
    /\ batch = <<>>
    /\ batch_ids = <<>>
    /\ pass_ids = <<>>
    /\ pass_triples = <<>>
    /\ requested = 0

----------------------------------------------------------------------------
(* Predict path: predict_caption and its nested generate_caption *)

\* the three os.path.exists checks, the two pickle loads and load_weights:
\* the reported error, or "none" when prediction may go on
ArtifactErrorLax(st, pickle_ok, weights_ok) ==
    IF st["model"] = 0 THEN "model not found"
    ELSE IF st["tokenizer"] = 0 THEN "tokenizer not found"
    ELSE IF ~pickle_ok THEN "error loading tokenizer or max_length"
    ELSE IF ~weights_ok THEN "error loading model weights"
    ELSE "none"

ArtifactError(st, pickle_ok, weights_ok) ==
    IF st["model"] = 0 THEN "model not found"
    ELSE IF st["tokenizer"] = 0 THEN "tokenizer not found"
    ELSE IF st["max_length"] = 0 THEN "max length not found"
    ELSE IF ~pickle_ok THEN "error loading tokenizer or max_length"
    ELSE IF ~weights_ok THEN "error loading model weights"
    ELSE "none"

\* for i in range(max_length): the number of iterations the loop allows
DecodeRangeLong(m) == m + 1

DecodeRange(m) == m

\* if word == 'endseq': break
IsEndMarkerNever(word) == FALSE

IsEndMarker(word) == word = ENDSEQ

\* caption.replace('startseq ', '').replace(' endseq', '')
StripMarkers(caption) ==
    Replace(Replace(caption, <<STARTSEQ, SP>>), <<SP, ENDSEQ>>)

\* predict_caption up to the call of generate_caption and its first line
PredictStart ==
    /\ ppc = "start"
    /\ \E pickle_ok \in BOOLEAN, weights_ok \in BOOLEAN, image_ok \in BOOLEAN :
         LET err == ArtifactError(store, pickle_ok, weights_ok)
         IN  IF err # "none" \/ ~image_ok
             THEN /\ ppc' = "error"
                  /\ UNCHANGED <<in_text, steps>>
             ELSE /\ in_text' = <<STARTSEQ>>
                  /\ steps' = 0
                  /\ ppc' = IF 0 < DecodeRange(max_length) THEN "decode" ELSE "generated"
    /\ UNCHANGED <<sequence, final_caption>>
    /\ UNCHANGED <<loaderVars, sharedVars, trainVars, cleanVars>>

\* one iteration of the loop of generate_caption; yhat is the argmax of the
\* vocab_size outputs of the decoder model
DecodeStep ==
    /\ ppc = "decode"
    /\ \E yhat \in 0..(VocabSize(tokenizer) - 1) :
         LET word == IndexWordGet(tokenizer, yhat)
         IN  /\ sequence' = PadSequences(TextsToSequences(tokenizer, in_text), max_length)
             /\ steps' = steps + 1
             /\ IF word = None
                THEN /\ in_text' = in_text
                     /\ ppc' = "generated"
                ELSE /\ in_text' = in_text \o <<SP, word>>
                     /\ ppc' = IF IsEndMarker(word) \/ ~(steps + 1 < DecodeRange(max_length))
                              THEN "generated" ELSE "decode"
    /\ UNCHANGED final_caption
    /\ UNCHANGED <<loaderVars, sharedVars, trainVars, cleanVars>>

\* final_caption is computed and reported
Report ==
    /\ ppc = "generated"
    /\ final_caption' = StripMarkers(in_text)
    /\ ppc' = "done"
    /\ UNCHANGED <<in_text, sequence, steps>>
    /\ UNCHANGED <<loaderVars, sharedVars, trainVars, cleanVars>>

PredictInit ==
    /\ IdleLoader /\ IdleTrain /\ IdleClean
    /\ store \in [Artifacts -> {0, 1}]
    /\ \E c \in Corpora :
         /\ tokenizer = FitOnTexts(DescriptionsToLines(c))
         /\ max_length = MaxLenOf(c)
    /\ run = 1
    /\ ppc = "start"
    /\ in_text = <<>>
    /\ sequence = <<>>
    /\ steps = 0
    /\ final_caption = NoCaption

PredictNext == PredictStart \/ DecodeStep \/ Report

PredictSpec == PredictInit /\ [][PredictNext]_vars

\* predict_caption is straight-line, single-threaded code: it keeps running
PredictFair == PredictSpec /\ WF_vars(PredictNext)

----------------------------------------------------------------------------
(* Properties of the predict path *)

TokenCount(text) == Len(SplitWords(text))

RECURSIVE JoinWords(_)
\* ' '.join(ws)
JoinWords(ws) ==
    IF ws = <<>> THEN <<>>
    ELSE IF Len(ws) = 1 THEN ws
    ELSE <<Head(ws), SP>> \o JoinWords(Tail(ws))

WithoutMarkers(ws) == SelectSeq(ws, LAMBDA w : w # STARTSEQ /\ w # ENDSEQ)

\* C1: greedy decoding makes at most max_length prediction steps and then
\* ends (caption reported or error), whatever token indices are predicted,
\* the end marker never being among them included.
C1_DecodeTerminates ==
    /\ [](steps <= max_length)
    /\ <>(ppc \in {"done", "error"})

\* the loop ran its max_length steps without ever predicting the end marker
C1_Witness ==
    /\ ppc = "done"
    /\ max_length >= 2
    /\ steps = max_length
    /\ \A k \in 1..Len(in_text) : in_text[k] # ENDSEQ

\* C2 as stated (for max_length >= 1): the partial sequence, start marker
\* included, never holds more than max_length tokens.
C2_Original == max_length >= 1 => TokenCount(in_text) <= max_length

\* C2 amended: the loop stops as soon as the end marker is predicted or
\* max_length tokens have been predicted; while another prediction is still
\* to come the partial sequence holds no end marker and at most max_length
\* tokens, and it never holds more than max_length + 1 tokens.
C2_PartialSequenceBound ==
    /\ TokenCount(in_text) <= max_length + 1
    /\ ppc = "decode" =>
         /\ TokenCount(in_text) <= max_length
         /\ TokenCount(in_text) = steps + 1
         /\ \A k \in 1..Len(in_text) : in_text[k] # ENDSEQ

\* the loop has stopped with max_length + 1 tokens in the partial sequence
C2_Witness ==
    /\ ppc = "generated"
    /\ max_length >= 2
    /\ TokenCount(in_text) = max_length + 1

\* C3: the reported caption is the decoded partial sequence without the two
\* boundary markers, its remaining tokens joined by single blanks.
C3_CaptionStripped ==
    ppc = "done" => final_caption = JoinWords(WithoutMarkers(SplitWords(in_text)))

\* C5 as stated: with any of the four persisted artifacts missing,
\* prediction reports an error and neither decodes nor reports a caption.
C5_Original ==
    (\E a \in Artifacts : store[a] = 0) =>
        /\ ppc \in {"start", "error"}
        /\ steps = 0
        /\ final_caption = NoCaption

\* C5 amended: with any of the three artifacts predict_caption reads
\* (vocabulary, max length, decoder weights) missing, prediction reports an
\* error and neither decodes nor reports a caption; the embedding cache is
\* not consulted at predict time.
C5_MissingArtifactFatal ==
    (\E a \in {"tokenizer", "max_length", "model"} : store[a] = 0) =>
        /\ ppc \in {"start", "error"}
        /\ steps = 0
        /\ in_text = <<>>
        /\ final_caption = NoCaption

\* prediction was refused because only the max length is missing
C5_Witness ==
    /\ ppc = "error"
    /\ store["max_length"] = 0
    /\ store["tokenizer"] # 0 /\ store["model"] # 0 /\ store["features"] # 0

----------------------------------------------------------------------------
(* Caption store: DataLoader.load_descriptions.  Here a symbol is a character *)

COMMA == ","
Chars == {"x", COMMA, SP}
HeaderLine == <<"image", COMMA, "caption">>
FileNames == {<<"x">>, <<"x", "x">>}
NL == "\n"

HasNewline(t) == \E k \in 1..Len(t) : t[k] = NL
FirstNewline(t) == CHOOSE k \in 1..Len(t) : t[k] = NL /\ \A j \in 1..(k-1) : t[j] # NL

RECURSIVE FileLines(_)
\* 'for line in f': the lines of the text, here without their terminator
\* (which line.strip() removes first thing); no line after a final newline
FileLines(t) ==
    IF t = <<>> THEN <<>>
    ELSE IF HasNewline(t)
         THEN <<SubSeq(t, 1, FirstNewline(t) - 1)>>
                  \o FileLines(SubSeq(t, FirstNewline(t) + 1, Len(t)))
         ELSE <<t>>

RECURSIVE LStrip(_)
LStrip(s) == IF s # <<>> /\ Head(s) = SP THEN LStrip(Tail(s)) ELSE s

RECURSIVE RStrip(_)
RStrip(s) ==
    IF s # <<>> /\ s[Len(s)] = SP THEN RStrip(SubSeq(s, 1, Len(s) - 1)) ELSE s

\* str.strip()
Strip(s) == RStrip(LStrip(s))

HasComma(s) == \E k \in 1..Len(s) : s[k] = COMMA
FirstComma(s) == CHOOSE k \in 1..Len(s) : s[k] = COMMA /\ \A j \in 1..(k-1) : s[j] # COMMA

RECURSIVE SplitAll(_)
\* str.split(','): every comma separates
SplitAll(s) ==
    IF ~HasComma(s) THEN <<s>>
    ELSE <<SubSeq(s, 1, FirstComma(s) - 1)>>
             \o SplitAll(SubSeq(s, FirstComma(s) + 1, Len(s)))

\* str.split(',', 1): only the first comma separates
SplitOnce(s) ==
    IF ~HasComma(s) THEN <<s>>
    ELSE <<SubSeq(s, 1, FirstComma(s) - 1), SubSeq(s, FirstComma(s) + 1, Len(s))>>

\* os.path.exists(os.path.join(self.images_dir, image_id)): joining the empty
\* identifier gives the directory itself
PathExists(dir, image_id) ==
    IF image_id = <<>> THEN dir.exists
    ELSE image_id \in dir.files

\* open(), next(f): a missing file and an empty file both end in return {}
LoadOpen ==
    /\ lpc = "start"
    /\ IF ~captions_file.exists \/ captions_file.lines = <<>>
       THEN /\ lpc' = "done"
            /\ line_no' = line_no
       ELSE /\ lpc' = "lines"
            /\ line_no' = 1
    /\ mapping' = <<>>
    /\ UNCHANGED <<captions_file, images_dir, parts>>
    /\ UNCHANGED <<sharedVars, predictVars, trainVars, cleanVars>>

\* the body of 'for line in f' for the next line of the file
LoadLine ==
    /\ lpc = "lines"
    /\ line_no < Len(captions_file.lines)
    /\ LET line == captions_file.lines[line_no + 1]
           ps == SplitOnce(Strip(line))
       IN  IF Len(ps) < 2
           THEN /\ parts' = [line |-> line, kind |-> "discarded",
                             image_id |-> None, description |-> None]
                /\ mapping' = mapping
           ELSE LET image_id == Strip(ps[1])
                    description == Strip(ps[2])
                IN  IF ~PathExists(images_dir, image_id)
                    THEN /\ parts' = [line |-> line, kind |-> "missing",
                                      image_id |-> image_id, description |-> description]
                         /\ mapping' = mapping
                    ELSE /\ parts' = [line |-> line, kind |-> "added",
                                      image_id |-> image_id, description |-> description]
                         /\ mapping' = [k \in DOMAIN mapping \cup {image_id} |->
                                          IF k = image_id
                                          THEN (IF k \in DOMAIN mapping THEN mapping[k] ELSE <<>>)
                                                   \o <<description>>
                                          ELSE mapping[k]]
    /\ line_no' = line_no + 1
    /\ UNCHANGED <<captions_file, images_dir, lpc>>
    /\ UNCHANGED <<sharedVars, predictVars, trainVars, cleanVars>>

\* the file is exhausted: return mapping
LoadReturn ==
    /\ lpc = "lines"
    /\ line_no = Len(captions_file.lines)
    /\ lpc' = "done"
    /\ UNCHANGED <<captions_file, images_dir, line_no, mapping, parts>>
    /\ UNCHANGED <<sharedVars, predictVars, trainVars, cleanVars>>

IdleShared ==
    /\ store = [a \in Artifacts |-> 0]
    /\ tokenizer = <<>>
    /\ max_length = 0
    /\ run = 1

LoadInit ==
    /\ IdlePredict /\ IdleTrain /\ IdleShared /\ IdleClean
    /\ \/ captions_file = [exists |-> FALSE, lines |-> <<>>]
       \/ captions_file = [exists |-> TRUE, lines |-> <<>>]
       \/ \E body \in SeqsUpTo(Chars \cup {NL}, MaxFileLen) :
            captions_file = [exists |-> TRUE, lines |-> <<HeaderLine>> \o FileLines(body)]
    /\ \/ images_dir = [exists |-> FALSE, files |-> {}]
       \/ \E fs \in SUBSET FileNames : images_dir = [exists |-> TRUE, files |-> fs]
    /\ lpc = "start"
    /\ line_no = 0
    /\ mapping = <<>>
    /\ parts = <<>>

LoadNext == LoadOpen \/ LoadLine \/ LoadReturn

LoadSpec == LoadInit /\ [][LoadNext]_vars

----------------------------------------------------------------------------
(* Properties of the caption store *)

\* C7: every key of the mapping is the identifier of a file of the image
\* directory.
C7_KeysAreImageFiles == \A k \in DOMAIN mapping : k \in images_dir.files

\* C8 as stated: a line with a comma gives the substring before its first
\* comma as image id and the whole remainder as caption text.
C8_Original ==
    (parts # <<>> /\ HasComma(parts.line)) =>
        /\ parts.image_id = SubSeq(parts.line, 1, FirstComma(parts.line) - 1)
        /\ parts.description =
               SubSeq(parts.line, FirstComma(parts.line) + 1, Len(parts.line))

\* C8 amended: a line with a comma gives the substring before its first comma
\* as image id and the whole remainder, later commas included, as caption
\* text, each with its leading and trailing whitespace removed; a line
\* without a comma is discarded and adds nothing to the mapping.
C8_SplitAtFirstComma ==
    /\ [](parts # <<>> =>
            IF HasComma(parts.line)
            THEN /\ parts.kind # "discarded"
                 /\ parts.image_id =
                        Strip(SubSeq(parts.line, 1, FirstComma(parts.line) - 1))
                 /\ parts.description =
                        Strip(SubSeq(parts.line, FirstComma(parts.line) + 1,
                                     Len(parts.line)))
            ELSE parts.kind = "discarded")
    /\ [][(line_no' = line_no + 1 /\ lpc = "lines"
              /\ ~HasComma(captions_file.lines[line_no']))
            => mapping' = mapping]_vars

\* a caption that keeps a later comma was added to the mapping
C8_Witness ==
    /\ parts # <<>>
    /\ parts.kind = "added"
    /\ parts.description # None
    /\ HasComma(parts.description)
    /\ parts.image_id \in DOMAIN mapping

----------------------------------------------------------------------------
(* Train path: train_model and its nested data_generator *)

RECURSIVE SortedSeq(_)
\* the keys of a dict whose keys were inserted in increasing order
SortedSeq(S) ==
    IF S = {} THEN <<>>
    ELSE LET m == CHOOSE x \in S : \A y \in S : x <= y
         IN  <<m>> \o SortedSeq(S \ {m})

\* filtered_descriptions_for_generator: the images of the cleaned mapping
\* that have a cached embedding, each with its framed caption lines
FilterForGenerator(descs, feats) ==
    [img \in {k \in 1..Len(descs) : k \in feats} |->
        [c \in 1..Len(descs[img]) |-> FrameLine(descs[img][c])]]

\* if not filtered_descriptions_for_generator
TrainingSetEmptyNever(f) == FALSE

TrainingSetEmpty(f) == DOMAIN f = {}

\* features[img_id]
Feature(img) == <<"feature", img>>

\* range(1, len(seq))
PrefixRangeFromZero(seq) == [k \in 1..Len(seq) |-> k - 1]

PrefixRange(seq) == [k \in 1..(Len(seq) - 1) |-> k]

\* the triples of one framed caption line: the innermost loop of data_generator
TriplesOfSeq(img, seq, tok, maxlen) ==
    LET r == PrefixRange(seq)
    IN  [k \in 1..Len(r) |->
            <<Feature(img),
              PadSequences(Slice(seq, 0, r[k]), maxlen),
              ToCategorical(seq[r[k] + 1], VocabSize(tok))>>]

TriplesOfLine(img, line, tok, maxlen) ==
    Only({TriplesOfSeq(img, seq, tok, maxlen) : seq \in {TextsToSequences(tok, line)}})

\* X1, X2, y of one image, zipped
TriplesOfImage(img, descs, tok, maxlen) ==
    Flatten([c \in 1..Len(descs[img]) |-> TriplesOfLine(img, descs[img][c], tok, maxlen)])

\* image_ids_batch[i:i+batch_size]
BatchImageIdsWide(ids, i, b) == Slice(ids, i, i + b + 1)

BatchImageIds(ids, i, b) == Slice(ids, i, i + b)

\* the step of range(0, len(image_ids_batch), batch_size)
RangeStepSkip(b) == b + 1

RangeStep(b) == b

\* the index the range iterator gives next; when it is exhausted the
\* enclosing 'while True' starts a new range at 0
NextRangeIndex(cur, n, b) ==
    IF cur = -1 THEN 0
    ELSE IF cur + RangeStep(b) < n THEN cur + RangeStep(b)
    ELSE 0

\* steps_per_epoch = len(image_ids_list_for_generator) // batch_size
StepsPerEpoch(n, b) == n \div b

\* data_generator resumed until its next yield.  The inner loop variable i
\* shadows the outer one, but the outer one is re-read from the range iterator
\* before it is used, so only the iterator's position is kept.  Every image
\* of the filtered set has a caption and every framed caption has at least
\* two words, so the batch built for the next index is never empty and the
\* generator yields it.
BatchTriples(ids) ==
    Flatten([k \in 1..Len(ids) |->
                TriplesOfImage(ids[k], filtered, tokenizer, max_length)])

GenResume ==
    LET i == NextRangeIndex(gen_i, Len(image_ids), batch_size)
        ids == BatchImageIds(image_ids, i, batch_size)
    IN  \E triples \in {BatchTriples(ids)} :
        /\ triples # <<>>          \* if X1 and X2 and y
        /\ gen_i' = i
        /\ batch' = triples
        /\ batch_ids' = ids
        /\ pass_ids' = IF i = 0 THEN ids ELSE pass_ids \o ids
        /\ pass_triples' = IF i = 0 THEN triples ELSE pass_triples \o triples

\* train_model up to the creation of the generator (it may stop before
\* anything is written when the image directory cannot be listed)
TrainPrepare ==
    /\ tpc = "start"
    /\ \E listing_ok \in BOOLEAN :
         IF store["features"] = 0 /\ ~listing_ok
         THEN /\ tpc' = "crashed"
              /\ UNCHANGED <<store, tokenizer, max_length, filtered, image_ids>>
         ELSE LET f == FilterForGenerator(cleaned, all_features)
              IN  /\ store' = [store EXCEPT
                                 !["features"] = IF @ = 0 THEN run ELSE @,
                                 !["tokenizer"] = run,
                                 !["max_length"] = run]
                  /\ tokenizer' = FitOnTexts(DescriptionsToLines(cleaned))
                  /\ max_length' = MaxLenOf(cleaned)
                  /\ filtered' = f
                  /\ IF TrainingSetEmpty(f)
                     THEN /\ tpc' = "aborted"
                          /\ image_ids' = image_ids
                     ELSE /\ tpc' = "fit"
                          /\ image_ids' = SortedSeq(DOMAIN f)
    /\ UNCHANGED <<run, cleaned, all_features, batch_size, epochs, gen_i, batch,
                   batch_ids, pass_ids, pass_triples, requested>>
    /\ UNCHANGED <<loaderVars, predictVars, cleanVars>>

\* model.fit draws the next batch
FitStep ==
    /\ tpc = "fit"
    /\ requested < epochs * StepsPerEpoch(Len(image_ids), batch_size)
    /\ GenResume
    /\ requested' = requested + 1
    /\ UNCHANGED <<tpc, cleaned, all_features, batch_size, epochs, filtered, image_ids>>
    /\ UNCHANGED <<loaderVars, sharedVars, predictVars, cleanVars>>

\* model.fit or model.save raises: caught, 'Training aborted.'
FitRaise ==
    /\ tpc = "fit"
    /\ tpc' = "failed"
    /\ UNCHANGED <<cleaned, all_features, batch_size, epochs, filtered, image_ids,
                   gen_i, batch, batch_ids, pass_ids, pass_triples, requested>>
    /\ UNCHANGED <<loaderVars, sharedVars, predictVars, cleanVars>>

\* model.fit returned: model.save
TrainSave ==
    /\ tpc = "fit"
    /\ requested = epochs * StepsPerEpoch(Len(image_ids), batch_size)
    /\ store' = [store EXCEPT !["model"] = run]
    /\ tpc' = "saved"
    /\ UNCHANGED <<tokenizer, max_length, run>>
    /\ UNCHANGED <<cleaned, all_features, batch_size, epochs, filtered, image_ids,
                   gen_i, batch, batch_ids, pass_ids, pass_triples, requested>>
    /\ UNCHANGED <<loaderVars, predictVars, cleanVars>>

\* what an earlier run (id 1) can have left in the models directory
PriorStores ==
    {[a \in Artifacts |-> IF a \in S THEN 1 ELSE 0] :
        S \in {{}, {"features"}, {"features", "tokenizer", "max_length"}, Artifacts}}

TrainInit ==
    /\ IdleLoader /\ IdlePredict /\ IdleClean
    /\ store \in PriorStores
    /\ tokenizer = <<>>
    /\ max_length = 0
    /\ run = 2
    /\ tpc = "start"
    /\ cleaned \in Corpora
    /\ all_features \in SUBSET (1..MaxImages)
    /\ batch_size \in 1..MaxBatch
    /\ epochs \in 1..MaxEpochs
    /\ filtered = <<>>
    /\ image_ids = <<>>
    /\ gen_i = -1
    /\ batch = <<>>
    /\ batch_ids = <<>>
    /\ pass_ids = <<>>
    /\ pass_triples = <<>>
    /\ requested = 0

TrainNext == TrainPrepare \/ FitStep \/ FitRaise \/ TrainSave

TrainSpec == TrainInit /\ [][TrainNext]_vars

\* The generator on its own, drawn from without end: it starts in the state
\* train_model creates it in, for every non-empty filtered training set.
GenInit ==
    /\ IdleLoader /\ IdlePredict /\ IdleClean
    /\ store = [a \in Artifacts |-> 2]
    /\ run = 2
    /\ tpc = "gen"
    /\ cleaned \in Corpora
    /\ all_features \in SUBSET (1..MaxImages)
    /\ ~TrainingSetEmpty(FilterForGenerator(cleaned, all_features))
    /\ tokenizer = FitOnTexts(DescriptionsToLines(cleaned))
    /\ max_length = MaxLenOf(cleaned)
    /\ filtered = FilterForGenerator(cleaned, all_features)
    /\ image_ids = SortedSeq(DOMAIN filtered)
    /\ batch_size \in 1..MaxBatch
    /\ epochs = 1
    /\ gen_i = -1
    /\ batch = <<>>
    /\ batch_ids = <<>>
    /\ pass_ids = <<>>
    /\ pass_triples = <<>>
    /\ requested = 0

\* next(generator)
GenNextBatch ==
    /\ tpc = "gen"
    /\ GenResume
    /\ UNCHANGED <<tpc, cleaned, all_features, batch_size, epochs, filtered,
                   image_ids, requested>>
    /\ UNCHANGED <<loaderVars, sharedVars, predictVars, cleanVars>>

GenNext == GenNextBatch

GenSpec == GenInit /\ [][GenNext]_vars

\* the consumer keeps asking for batches
GenFair == GenSpec /\ WF_vars(GenNextBatch)

----------------------------------------------------------------------------
(* Properties of the train path and of the training example generator *)

IsPrefix(s, t) == Len(s) <= Len(t) /\ SubSeq(t, 1, Len(s)) = s

\* the prefix, with zeros in front, as a sequence of exactly m entries
LeftPad(prefix, m) ==
    IF Len(prefix) > m THEN <<"longer than max_length">>
    ELSE [k \in 1..m |-> IF k <= m - Len(prefix) THEN 0
                         ELSE prefix[k - (m - Len(prefix))]]

\* the vector over the vocabulary that is 1 at idx and 0 elsewhere
OneHot(idx, size) == [k \in 1..size |-> IF k - 1 = idx THEN 1 ELSE 0]

\* the n-1 triples C4 describes for one framed caption of n token indices
ExpectedTriples(img, line) ==
    LET idx == TextsToSequences(tokenizer, line)
    IN  [i \in 1..(Len(idx) - 1) |->
            <<Feature(img), LeftPad(SubSeq(idx, 1, i), max_length),
              OneHot(idx[i + 1], VocabSize(tokenizer))>>]

ExpectedOfImages(ids) ==
    Flatten([k \in 1..Len(ids) |->
        Flatten([c \in 1..Len(filtered[ids[k]]) |->
            ExpectedTriples(ids[k], filtered[ids[k]][c])])])

\* C4: a yielded batch is made, image by image and caption by caption, of
\* exactly the n-1 triples of each caption (embedding, first i indices
\* left-padded to max_length, one-hot of the index after the prefix), and a
\* completed pass has yielded exactly these triples for every image.
C4_TriplesPerCaption ==
    /\ batch # <<>> => batch = ExpectedOfImages(batch_ids)
    /\ (batch # <<>> /\ pass_ids = image_ids) =>
           pass_triples = ExpectedOfImages(image_ids)

\* a pass over three images is complete and an image with two captions, one
\* of them of 4 token indices, has contributed
C4_Witness ==
    /\ tpc = "gen"
    /\ Len(image_ids) = 3
    /\ pass_ids = image_ids
    /\ max_length = 4
    /\ \E k \in 1..Len(image_ids) : Len(filtered[image_ids[k]]) = 2
    /\ Len(pass_triples) >= 5

\* C6: when no image has both captions and a cached embedding, train_model
\* aborts: no batch is drawn, the model is not fitted and this run persists
\* no decoder weights.
C6_EmptyTrainingSetAborts ==
    (tpc \notin {"start", "crashed"} /\ \A k \in 1..Len(cleaned) : k \notin all_features) =>
        /\ tpc = "aborted"
        /\ requested = 0
        /\ batch = <<>>
        /\ store["model"] # run

\* training aborted although there are captions and there are embeddings
C6_Witness ==
    /\ tpc = "aborted"
    /\ cleaned # <<>>
    /\ all_features # {}
    /\ store["tokenizer"] = run

\* C9: the generator never ends; in each pass the images reach the yielded
\* batches once each and in the order of the image list, every pass is
\* completed, and the batch after the one holding the last image starts at
\* the first image again.
C9_InfiniteCycle ==
    /\ [](IsPrefix(pass_ids, image_ids))
    /\ [][(pass_ids = image_ids /\ batch # <<>>) =>
             (batch_ids' = Slice(image_ids, 0, batch_size) /\ pass_ids' = batch_ids')]_vars
    /\ [][(pass_ids # image_ids /\ batch # <<>>) =>
             (pass_ids' = pass_ids \o batch_ids' /\ batch_ids' # <<>>)]_vars
    /\ []<>(pass_ids = image_ids)
    /\ []<>(gen_i = 0 /\ batch # <<>>)

\* the second batch of a pass over three images, holding the last image
C9_Witness ==
    /\ tpc = "gen"
    /\ Len(image_ids) = 3
    /\ batch_size = 2
    /\ gen_i = 2
    /\ pass_ids = image_ids

ImagesIn(b) == {b[k][1] : k \in 1..Len(b)}
LastImage == image_ids[Len(image_ids)]

\* C10 as stated: a yielded batch that is not the last of its pass holds
\* exactly batch_size triples.
C10_Original ==
    (tpc = "gen" /\ batch # <<>> /\ Feature(LastImage) \notin ImagesIn(batch)) =>
        Len(batch) = batch_size

\* C10 amended: the batch size counts images, not triples: a yielded batch
\* that is not the last of its pass holds all triples of exactly batch_size
\* images (so at least batch_size triples), and the last batch of a pass
\* those of 1..batch_size images.
C10_BatchOfImages ==
    (tpc = "gen" /\ batch # <<>>) =>
        /\ Len(batch) >= Cardinality(ImagesIn(batch))
        /\ IF Feature(LastImage) \notin ImagesIn(batch)
           THEN Cardinality(ImagesIn(batch)) = batch_size
           ELSE Cardinality(ImagesIn(batch)) \in 1..batch_size

\* a batch of two images that is not the last of its pass and holds more
\* than two triples
C10_Witness ==
    /\ tpc = "gen"
    /\ batch_size = 2
    /\ batch # <<>>
    /\ Feature(LastImage) \notin ImagesIn(batch)
    /\ Len(batch) > batch_size

----------------------------------------------------------------------------
(* Text normaliser: DataLoader.clean_descriptions.  A symbol is a character *)

Letters == {"a", "b", "B"}
Punctuation == {"!"}                 \* string.punctuation
CaptionChars == {"a", "B", "1", "!", SP}

\* str.lower() on one character
LowerChar(c) == IF c = "B" THEN "b" ELSE c

\* word.lower()
Lower(word) == [k \in 1..Len(word) |-> LowerChar(word[k])]

\* w.translate(table): the punctuation characters are deleted
Translate(word) == SelectSeq(word, LAMBDA c : c \notin Punctuation)

\* word.isalpha(): all characters are letters; the empty word qualifies
IsAlphaVacuous(word) == \A k \in 1..Len(word) : word[k] \in Letters

\* word.isalpha(): at least one character and all characters are letters
IsAlpha(word) == word # <<>> /\ \A k \in 1..Len(word) : word[k] \in Letters

HasBlank(s) == \E k \in 1..Len(s) : s[k] = SP
FirstBlank(s) == CHOOSE k \in 1..Len(s) : s[k] = SP /\ \A j \in 1..(k-1) : s[j] # SP

RECURSIVE SplitText(_)
\* desc.split(): the maximal runs of characters other than whitespace
SplitText(s) ==
    IF LStrip(s) = <<>> THEN <<>>
    ELSE IF HasBlank(LStrip(s))
         THEN <<SubSeq(LStrip(s), 1, FirstBlank(LStrip(s)) - 1)>>
                  \o SplitText(SubSeq(LStrip(s), FirstBlank(LStrip(s)) + 1, Len(LStrip(s))))
         ELSE <<LStrip(s)>>

RECURSIVE JoinText(_)
\* ' '.join(desc)
JoinText(ws) ==
    IF ws = <<>> THEN <<>>
    ELSE IF Len(ws) = 1 THEN ws[1]
    ELSE ws[1] \o <<SP>> \o JoinText(Tail(ws))

\* the body of the inner loop of clean_descriptions for one caption
CleanCaption(desc) ==
    LET split == SplitText(desc)
        lowered == [k \in 1..Len(split) |-> Lower(split[k])]
        stripped == [k \in 1..Len(lowered) |-> Translate(lowered[k])]
        kept == SelectSeq(stripped, IsAlpha)
    IN  JoinText(kept)

\* clean_descriptions: a new mapping with the same keys
CleanDescriptions(d) ==
    [image_id \in DOMAIN d |->
        [c \in 1..Len(d[image_id]) |-> CleanCaption(d[image_id][c])]]

\* cleaned = clean_descriptions(descriptions)
CleanFirst ==
    /\ cpc = "start"
    /\ cleaned_first' = CleanDescriptions(descriptions)
    /\ cleaned_descriptions' = cleaned_first'
    /\ cpc' = "once"
    /\ UNCHANGED descriptions
    /\ UNCHANGED <<loaderVars, sharedVars, predictVars, trainVars>>

\* cleaned = clean_descriptions(cleaned)
CleanAgain ==
    /\ cpc = "once"
    /\ cleaned_descriptions' = CleanDescriptions(cleaned_descriptions)
    /\ cpc' = "twice"
    /\ UNCHANGED <<descriptions, cleaned_first>>
    /\ UNCHANGED <<loaderVars, sharedVars, predictVars, trainVars>>

\* the mappings load_descriptions can return for one image file: every key
\* has at least one caption
CleanInit ==
    /\ IdleLoader /\ IdlePredict /\ IdleTrain /\ IdleShared
    /\ cpc = "start"
    /\ \/ descriptions = <<>>
       \/ \E caps \in SeqsUpTo(SeqsUpTo(CaptionChars, MaxCaptionLen), 2) \ {<<>>} :
            descriptions = [image_id \in {<<"x">>} |-> caps]
    /\ cleaned_first = <<>>
    /\ cleaned_descriptions = <<>>

CleanNext == CleanFirst \/ CleanAgain

CleanSpec == CleanInit /\ [][CleanNext]_vars

\* C11: clean_descriptions is idempotent: cleaning a cleaned mapping returns
\* it unchanged.
C11_CleanIdempotent ==
    cpc = "twice" => cleaned_descriptions = cleaned_first

\* a caption that the first cleaning changed into a non-empty caption has
\* been cleaned twice
C11_Witness ==
    /\ cpc = "twice"
    /\ \E image_id \in DOMAIN descriptions :
         /\ cleaned_first[image_id][1] # descriptions[image_id][1]
         /\ cleaned_first[image_id][1] # <<>>
         /\ \E k \in 1..Len(descriptions[image_id][1]) :
                descriptions[image_id][1][k] \in Punctuation

----------------------------------------------------------------------------
(* The program: one 'train' invocation followed by one 'predict' invocation *)

TrainEnded == tpc \in {"crashed", "aborted", "failed", "saved"}

\* main() with --mode predict, in a new process: what train_model held in
\* memory is gone (cleaned is kept as a record of what the run was given) and
\* the vocabulary and max length are what the pickles hold: those of this
\* run when it wrote them, else those of the earlier run that did
PredictBegin ==
    /\ TrainEnded
    /\ ppc = "idle"
    /\ ppc' = "start"
    /\ IF store["tokenizer"] = run
       THEN UNCHANGED <<tokenizer, max_length>>
       ELSE IF store["tokenizer"] = 0
       THEN tokenizer' = <<>> /\ max_length' = 0
       ELSE \E c \in Corpora :
              /\ tokenizer' = FitOnTexts(DescriptionsToLines(c))
              /\ max_length' = MaxLenOf(c)
    /\ all_features' = {}
    /\ batch_size' = 1
    /\ epochs' = 1
    /\ filtered' = <<>>
    /\ image_ids' = <<>>
    /\ gen_i' = -1
    /\ batch' = <<>>
    /\ batch_ids' = <<>>
    /\ pass_ids' = <<>>
    /\ pass_triples' = <<>>
    /\ requested' = 0
    /\ UNCHANGED <<store, run, tpc, cleaned>>
    /\ UNCHANGED <<in_text, sequence, steps, final_caption>>
    /\ UNCHANGED <<loaderVars, cleanVars>>

ProgramInit == TrainInit

ProgramNext == TrainNext \/ PredictBegin \/ PredictNext

ProgramSpec == ProgramInit /\ [][ProgramNext]_vars

----------------------------------------------------------------------------
(* Properties across training and prediction *)

\* C12: every token sequence handed to the decoder model, the padded prefix of
\* a training triple as well as the padded partial sequence of a decode step,
\* has exactly max_length entries, max_length being the value max_len
\* computed over all framed captions of the training run.
C12_PaddedLength ==
    /\ batch # <<>> =>
         /\ max_length = MaxLenOf(cleaned)
         /\ \A k \in 1..Len(batch) : Len(batch[k][2]) = max_length
    /\ steps >= 1 =>
         /\ Len(sequence) = max_length
         /\ store["max_length"] = run => max_length = MaxLenOf(cleaned)

\* after a run that trained and saved, a second decode step was handed a
\* sequence that needed padding
C12_Witness ==
    /\ tpc = "saved"
    /\ \A a \in {"tokenizer", "max_length", "model"} : store[a] = run
    /\ steps >= 2
    /\ Len(sequence) = max_length
    /\ sequence[1] = 0

\* C13: once a train_model run has ended, the persisted vocabulary, max
\* length and decoder weights come from the same run, and a run that has
\* persisted no weights has left the persisted vocabulary and max length as
\* they were.
C13_ArtifactsFromOneRun ==
    TrainEnded =>
        /\ (store["tokenizer"] # 0 /\ store["max_length"] # 0 /\ store["model"] # 0) =>
               (store["tokenizer"] = store["model"] /\ store["max_length"] = store["model"])
        /\ store["model"] # run =>
               (store["tokenizer"] # run /\ store["max_length"] # run)

\* C14: the number of batches fit draws per epoch is at least 1 and is the
\* number of batches of one pass of the generator: the last batch of every
\* epoch completes a pass and the first batch of every epoch starts at the
\* first image.
C14_EpochIsOnePass ==
    tpc = "fit" =>
        LET spe == StepsPerEpoch(Len(image_ids), batch_size)
        IN  /\ spe >= 1
            /\ (requested >= 1 /\ requested % spe = 0) => pass_ids = image_ids
            /\ (requested >= 1 /\ (requested - 1) % spe = 0) => gen_i = 0

====
